---- MODULE Spec2Model ----
(***************************************************************************)
(* Marketplace analyzer: scripts/github_actions_enhanced_analyzer.py (the  *)
(* "enhanced" script) and scripts/simple_marketplace_analyzer.py (the      *)
(* "fallback" script).                                                     *)
(*                                                                         *)
(* Text is a sequence of one-character strings, so that Python's           *)
(* substring test (`in`), str.lower(), the price regular expressions and   *)
(* float() are computed character by character.  Money is a whole number   *)
(* of cents (1.00 is 100); the page vocabulary writes at most two decimals *)
(* so every parsed price is a whole number of cents.                       *)
(***************************************************************************)
EXTENDS Integers, Sequences, FiniteSets, TLC

VARIABLES
    script,               \* which script runs: "enhanced" or "fallback"
    max_suppliers,        \* int(sys.argv[2]), default 20
    stores_df,            \* the stores table read from the CSV, None when the file is missing
    net,                  \* what the HTTP GET will do: "ok", "http_error", "network_error"
    page_text,            \* soup.get_text() of the fetched page
    pc,                   \* position of the running script / function
    requests_made,        \* number of HTTP requests issued
    marketplace_analysis, \* result of analyze_marketplace, None on failure
    suppliers,            \* result of generate_supplier_recommendations
    csv_file,             \* rows of matching_results_<ts>.csv, None while not written
    json_file,            \* content of matching_results_<ts>_summary.json, None while not written
    exit_status,          \* process exit status, None while running
    categories,           \* analyze_marketplace: value of the 'categories' key
    price_analysis,       \* analyze_marketplace: value of the 'price_analysis' key
    brand_analysis,       \* analyze_marketplace: value of the 'brand_analysis' key
    store,                \* _calculate_compatibility_score: the row being scored
    score,                \* _calculate_compatibility_score: local variable score
    returned              \* _calculate_compatibility_score: returned value, None before return

vars == <<script, max_suppliers, stores_df, net, page_text, pc, requests_made,
          marketplace_analysis, suppliers, csv_file, json_file, exit_status,
          categories, price_analysis, brand_analysis, store, score, returned>>

(***************************************************************************)
(* Python values.                                                          *)
(***************************************************************************)
\* None is the empty tuple, a present value x is <<x>>.
None == <<>>
Some(x) == <<x>>
Get(o) == o[1]

Min(a, b) == IF a < b THEN a ELSE b
Max(a, b) == IF a > b THEN a ELSE b
Abs(a) == IF a < 0 THEN -a ELSE a
Range(s) == {s[i] : i \in 1..Len(s)}

RECURSIVE SumSeq(_)
SumSeq(s) == IF s = <<>> THEN 0 ELSE Head(s) + SumSeq(Tail(s))
RECURSIVE MinSeq(_)
MinSeq(s) == IF Len(s) = 1 THEN s[1] ELSE Min(Head(s), MinSeq(Tail(s)))
RECURSIVE MaxSeq(_)
MaxSeq(s) == IF Len(s) = 1 THEN s[1] ELSE Max(Head(s), MaxSeq(Tail(s)))
RECURSIVE Concat(_)
Concat(ss) == IF ss = <<>> THEN <<>> ELSE Head(ss) \o Concat(Tail(ss))

(***************************************************************************)
(* Strings.                                                                *)
(***************************************************************************)
UpperCase == <<"A","B","C","D","E","F","G","H","I","J","K","L","M","N","O","P","Q","R","S","T","U","V","W","X","Y","Z">>
LowerCase == <<"a","b","c","d","e","f","g","h","i","j","k","l","m","n","o","p","q","r","s","t","u","v","w","x","y","z">>
Digits == {"0","1","2","3","4","5","6","7","8","9"}

\* str.lower() on one character
LowerChar(c) ==
    IF \E i \in 1..26 : UpperCase[i] = c
    THEN LowerCase[CHOOSE i \in 1..26 : UpperCase[i] = c]
    ELSE c

\* str.lower()
Lower(s) == [i \in 1..Len(s) |-> LowerChar(s[i])]

\* needle in hay
Contains(needle, hay) ==
    \E i \in 0..(Len(hay) - Len(needle)) :
        \A k \in 1..Len(needle) : hay[i + k] = needle[k]

\* any(word in hay for word in words)
AnyIn(words, hay) == \E i \in 1..Len(words) : Contains(words[i], hay)

\* value of a decimal digit
DigitVal(c) == CHOOSE d \in 0..9 : ToString(d) = c

\* int of a string of digits
RECURSIVE DigitsToInt(_)
DigitsToInt(ds) ==
    IF ds = <<>> THEN 0
    ELSE 10 * DigitsToInt(SubSeq(ds, 1, Len(ds) - 1)) + DigitVal(ds[Len(ds)])

\* the characters of s that are in the set keep, in order
RECURSIVE Keep(_, _)
Keep(s, keep) ==
    IF s = <<>> THEN <<>>
    ELSE (IF Head(s) \in keep THEN <<Head(s)>> ELSE <<>>) \o Keep(Tail(s), keep)

\* end of the longest run of characters of cs that starts at position i
\* (i - 1 when text[i] is not in cs)
RECURSIVE RunEnd(_, _, _)
RunEnd(text, i, cs) ==
    IF i <= Len(text) /\ text[i] \in cs THEN RunEnd(text, i + 1, cs) ELSE i - 1

(***************************************************************************)
(* Feature extraction (enhanced script).                                   *)
(***************************************************************************)
\* category_keywords, in the dict's insertion order
category_keywords == <<
    [label |-> <<"f","a","s","h","i","o","n">>, keywords |-> <<<<"f","a","s","h","i","o","n">>, <<"c","l","o","t","h","i","n","g">>, <<"a","p","p","a","r","e","l">>, <<"d","r","e","s","s">>, <<"s","h","i","r","t">>, <<"p","a","n","t","s">>, <<"d","e","n","i","m">>, <<"j","e","a","n","s">>>>],
    [label |-> <<"b","e","a","u","t","y">>, keywords |-> <<<<"b","e","a","u","t","y">>, <<"c","o","s","m","e","t","i","c","s">>, <<"m","a","k","e","u","p">>, <<"s","k","i","n","c","a","r","e">>, <<"p","e","r","f","u","m","e">>, <<"s","k","i","n","c","a","r","e"," ","d","e","v","i","c","e">>, <<"f","a","c","i","a","l">>>>],
    [label |-> <<"e","l","e","c","t","r","o","n","i","c","s">>, keywords |-> <<<<"e","l","e","c","t","r","o","n","i","c","s">>, <<"p","h","o","n","e">>, <<"l","a","p","t","o","p">>, <<"c","o","m","p","u","t","e","r">>, <<"g","a","d","g","e","t">>, <<"t","e","c","h">>>>],
    [label |-> <<"h","o","m","e">>, keywords |-> <<<<"h","o","m","e">>, <<"f","u","r","n","i","t","u","r","e">>, <<"d","e","c","o","r">>, <<"k","i","t","c","h","e","n">>, <<"b","e","d","r","o","o","m">>, <<"l","i","v","i","n","g">>>>],
    [label |-> <<"s","p","o","r","t","s">>, keywords |-> <<<<"s","p","o","r","t","s">>, <<"f","i","t","n","e","s","s">>, <<"o","u","t","d","o","o","r">>, <<"e","x","e","r","c","i","s","e">>, <<"a","t","h","l","e","t","i","c">>, <<"c","y","c","l","i","n","g">>, <<"w","i","n","t","e","r"," ","s","p","o","r","t","s">>>>],
    [label |-> <<"j","e","w","e","l","r","y">>, keywords |-> <<<<"j","e","w","e","l","r","y">>, <<"w","a","t","c","h">>, <<"n","e","c","k","l","a","c","e">>, <<"r","i","n","g">>, <<"b","r","a","c","e","l","e","t">>, <<"a","c","c","e","s","s","o","r","i","e","s">>>>],
    [label |-> <<"b","o","o","k","s">>, keywords |-> <<<<"b","o","o","k","s">>, <<"r","e","a","d","i","n","g">>, <<"l","i","t","e","r","a","t","u","r","e">>, <<"n","o","v","e","l">>, <<"t","e","x","t","b","o","o","k">>>>],
    [label |-> <<"t","o","y","s">>, keywords |-> <<<<"t","o","y","s">>, <<"g","a","m","e","s">>, <<"c","h","i","l","d","r","e","n">>, <<"k","i","d","s">>, <<"p","l","a","y">>>>],
    [label |-> <<"a","u","t","o","m","o","t","i","v","e">>, keywords |-> <<<<"c","a","r">>, <<"a","u","t","o">>, <<"v","e","h","i","c","l","e">>, <<"p","a","r","t","s">>, <<"a","u","t","o","m","o","t","i","v","e">>>>],
    [label |-> <<"h","e","a","l","t","h">>, keywords |-> <<<<"h","e","a","l","t","h">>, <<"m","e","d","i","c","a","l">>, <<"w","e","l","l","n","e","s","s">>, <<"s","u","p","p","l","e","m","e","n","t">>, <<"p","h","a","r","m","a","c","y">>>>],
    [label |-> <<"p","e","t","s">>, keywords |-> <<<<"p","e","t">>, <<"d","o","g">>, <<"c","a","t">>, <<"a","n","i","m","a","l">>, <<"p","e","t"," ","f","o","o","d">>, <<"p","e","t"," ","t","o","y">>, <<"p","e","t"," ","c","a","r","e">>>>] >>

\* the slice bound of `categories[:10]`
CategoryLimit == 10

\* the for loop of _extract_categories over the entries from position i on
RECURSIVE CategoryLoop(_, _, _)
CategoryLoop(text_content, i, acc) ==
    IF i > Len(category_keywords) THEN acc
    ELSE CategoryLoop(text_content, i + 1,
            IF AnyIn(category_keywords[i].keywords, text_content)
            THEN Append(acc, category_keywords[i].label)
            ELSE acc)

\* the loop's result returned without the slice
_extract_categories_uncut(text) == CategoryLoop(Lower(text), 1, <<>>)

_extract_categories(text) ==
    LET found == CategoryLoop(Lower(text), 1, <<>>)
    IN  SubSeq(found, 1, Min(CategoryLimit, Len(found)))

\* the five price patterns: the currency sign, and whether `\.?\d*` follows `[\d,]+`
price_patterns == <<
    [sign |-> "$", decimals |-> TRUE],
    [sign |-> "€", decimals |-> TRUE],
    [sign |-> "£", decimals |-> TRUE],
    [sign |-> "¥", decimals |-> FALSE],
    [sign |-> "₹", decimals |-> TRUE] >>

\* where a match of the pattern that starts at position i ends, 0 when none
\* starts there: sign, [\d,]+ (greedy), then \.? and \d* (greedy)
MatchEnd(pattern, text, i) ==
    IF ~(i < Len(text) /\ text[i] = pattern.sign /\ text[i + 1] \in Digits \cup {","})
    THEN 0
    ELSE LET j == RunEnd(text, i + 1, Digits \cup {","})
         IN  IF pattern.decimals /\ j < Len(text) /\ text[j + 1] = "."
             THEN RunEnd(text, j + 2, Digits)
             ELSE j

\* re.findall(pattern, text): the non-overlapping matches, left to right
RECURSIVE FindAll(_, _, _)
FindAll(pattern, text, i) ==
    IF i > Len(text) THEN <<>>
    ELSE LET e == MatchEnd(pattern, text, i)
         IN  IF e = 0 THEN FindAll(pattern, text, i + 1)
             ELSE <<SubSeq(text, i, e)>> \o FindAll(pattern, text, e + 1)

\* float(numeric_value) raises ValueError: no digit at all (the text is "." alone)
FloatRaises(numeric_value) == Keep(numeric_value, Digits) = <<>>

\* float(numeric_value), in cents
FloatCents(numeric_value) ==
    LET hasdot == \E i \in 1..Len(numeric_value) : numeric_value[i] = "."
        dot == IF hasdot
               THEN CHOOSE i \in 1..Len(numeric_value) : numeric_value[i] = "."
               ELSE Len(numeric_value) + 1
        whole == SubSeq(numeric_value, 1, dot - 1)
        frac == IF hasdot THEN SubSeq(numeric_value \o <<"0","0">>, dot + 1, dot + 2) ELSE <<"0","0">>
    IN  100 * DigitsToInt(whole) + DigitsToInt(frac)

\* lower and upper end of the "reasonable price range" 1 <= price <= 50000, in cents
PriceFloor == 100
PriceCeiling == 5000000

\* the range test with both ends excluded
InRangeExclusive(price) == PriceFloor < price /\ price < PriceCeiling

\* line 141: 1 <= price <= 50000
InRange(price) == PriceFloor <= price /\ price <= PriceCeiling

\* the inner loop of _analyze_prices: the prices the matches of one pattern add
RECURSIVE PricesOf(_)
PricesOf(matches) ==
    IF matches = <<>> THEN <<>>
    ELSE LET numeric_value == Keep(Head(matches), Digits \cup {"."})
             price == FloatCents(numeric_value)
         IN  (IF numeric_value # <<>> /\ ~FloatRaises(numeric_value) /\ InRange(price)
              THEN <<price>> ELSE <<>>) \o PricesOf(Tail(matches))

\* the list `prices` after the outer loop of _analyze_prices
CollectPrices(text) ==
    Concat([p \in 1..Len(price_patterns) |-> PricesOf(FindAll(price_patterns[p], text, 1))])

currency_indicators == <<
    [currency |-> "USD", indicators |-> <<<<"$">>, <<"u","s","d">>, <<"d","o","l","l","a","r">>>>],
    [currency |-> "EUR", indicators |-> <<<<"€">>, <<"e","u","r">>, <<"e","u","r","o">>>>],
    [currency |-> "GBP", indicators |-> <<<<"£">>, <<"g","b","p">>, <<"p","o","u","n","d">>>>],
    [currency |-> "JPY", indicators |-> <<<<"¥">>, <<"j","p","y">>, <<"y","e","n">>>>],
    [currency |-> "INR", indicators |-> <<<<"₹">>, <<"i","n","r">>, <<"r","u","p","e","e">>>>] >>

_detect_currency(text) ==
    LET lc == Lower(text)
        hits == {i \in 1..Len(currency_indicators) : AnyIn(currency_indicators[i].indicators, lc)}
    IN  IF hits = {} THEN "USD"
        ELSE currency_indicators[CHOOSE i \in hits : \A k \in hits : i <= k].currency

\* round(total / n, 2) for a total in cents: the nearest cent; a quotient that
\* ends in exactly half a cent goes up or down with its binary representation
RoundCents(total, n) ==
    LET q == total \div n
        r == total % n
    IN  IF 2 * r < n THEN {q} ELSE IF 2 * r > n THEN {q + 1} ELSE {q, q + 1}

\* _analyze_prices: the results it can return
_analyze_prices(text) ==
    LET prices == CollectPrices(text)
    IN  IF prices # <<>>
        THEN {[average_price |-> avg,
               min_price |-> MinSeq(prices),
               max_price |-> MaxSeq(prices),
               price_count |-> Len(prices),
               currency_detected |-> _detect_currency(text)] :
              avg \in RoundCents(SumSeq(prices), Len(prices))}
        ELSE {[average_price |-> 0, min_price |-> 0, max_price |-> 0,
               price_count |-> 0, currency_detected |-> "USD"]}

luxury_indicators == <<<<"l","u","x","u","r","y">>, <<"p","r","e","m","i","u","m">>, <<"e","x","c","l","u","s","i","v","e">>, <<"d","e","s","i","g","n","e","r">>, <<"h","i","g","h","-","e","n","d">>>>
value_indicators == <<<<"a","f","f","o","r","d","a","b","l","e">>, <<"c","h","e","a","p">>, <<"d","i","s","c","o","u","n","t">>, <<"s","a","l","e">>, <<"b","u","d","g","e","t">>>>

\* every occurrence of every indicator counted: sum(text.count(indicator))
CountOccurrences(indicators, text_content) ==
    Cardinality({<<i, p>> \in (1..Len(indicators)) \X (1..Len(text_content)) :
        /\ p + Len(indicators[i]) - 1 <= Len(text_content)
        /\ \A k \in 1..Len(indicators[i]) : text_content[p + k - 1] = indicators[i][k]})

\* sum(1 for indicator in indicators if indicator in text_content)
CountPresent(indicators, text_content) ==
    Cardinality({i \in 1..Len(indicators) : Contains(indicators[i], text_content)})

_analyze_brands(text) ==
    LET text_content == Lower(text)
        luxury_score == CountPresent(luxury_indicators, text_content)
        value_score == CountPresent(value_indicators, text_content)
    IN  [positioning |-> IF luxury_score > value_score THEN "premium"
                         ELSE IF value_score > luxury_score THEN "value"
                         ELSE "mid-market",
         luxury_score |-> luxury_score,
         value_score |-> value_score]

\* the dict analyze_marketplace builds from a parsed page (the keys the scorer
\* and the report read; title, description, language and country are read
\* from the HTML structure and by nothing downstream)
AnalysisResults(text) ==
    {[categories |-> _extract_categories(text),
      price_analysis |-> pa,
      brand_analysis |-> _analyze_brands(text)] : pa \in _analyze_prices(text)}

(***************************************************************************)
(* The stores table.  A cell is what pandas gives for it: NaN for an empty *)
(* cell, a str, or a number (a numeric 'Products Count' column).           *)
(***************************************************************************)
NaN == [kind |-> "nan", s |-> <<>>, n |-> 0]
Str(cs) == [kind |-> "str", s |-> cs, n |-> 0]
Num(k) == [kind |-> "num", s |-> <<>>, n |-> k]

\* pd.notna(cell)
notna(cell) == cell.kind # "nan"

\* str(cell) of a text column: str(float('nan')) is 'nan'
StrOf(cell) == IF cell.kind = "nan" THEN <<"n","a","n">> ELSE cell.s

(***************************************************************************)
(* _calculate_compatibility_score, term by term.                           *)
(***************************************************************************)
\* the category term stopped at the first match: +20 at most
CategoryTermCapped(st, ma) ==
    LET store_categories == Lower(StrOf(st.Categories))
        store_description == Lower(StrOf(st.Description))
        marketplace_categories == ma.categories
    IN  IF \E i \in 1..Len(marketplace_categories) :
              \/ Contains(marketplace_categories[i], store_categories)
              \/ Contains(marketplace_categories[i], store_description)
        THEN 20 ELSE 0

\* lines 290-298: +20 for each marketplace category found in the store's
\* categories or description
CategoryTerm(st, ma) ==
    LET store_categories == Lower(StrOf(st.Categories))
        store_description == Lower(StrOf(st.Description))
        marketplace_categories == ma.categories
    IN  20 * Cardinality({i \in 1..Len(marketplace_categories) :
                \/ Contains(marketplace_categories[i], store_categories)
                \/ Contains(marketplace_categories[i], store_description)})

\* re.search(r'[\d,]+', text).group(): the first run of digits and commas,
\* None when the text has none
SalesMatch(text) ==
    LET starts == {i \in 1..Len(text) : text[i] \in Digits \cup {","}}
    IN  IF starts = {} THEN None
        ELSE LET i == CHOOSE k \in starts : \A m \in starts : k <= m
             IN  Some(SubSeq(text, i, RunEnd(text, i, Digits \cup {","})))

\* the two comparisons with <= in place of <
PriceBonusNonStrict(estimated_avg_price, marketplace_avg_price) ==
    IF 2 * Abs(estimated_avg_price - marketplace_avg_price) <= marketplace_avg_price THEN 25
    ELSE IF Abs(estimated_avg_price - marketplace_avg_price) <= marketplace_avg_price THEN 15
    ELSE 0

\* the two comparisons of lines 314-317, on an estimate and an average in cents
PriceBonus(estimated_avg_price, marketplace_avg_price) ==
    IF 2 * Abs(estimated_avg_price - marketplace_avg_price) < marketplace_avg_price THEN 25
    ELSE IF Abs(estimated_avg_price - marketplace_avg_price) < marketplace_avg_price THEN 15
    ELSE 0

\* lines 300-319; monthly_sales / 100 in cents is monthly_sales itself
PriceTerm(st, ma) ==
    LET marketplace_avg_price == ma.price_analysis.average_price
        estimated_sales == StrOf(st.EstimatedSales)
        sales_match == SalesMatch(estimated_sales)
        digits == Keep(Get(sales_match), Digits)
        monthly_sales == DigitsToInt(digits)
    IN  IF marketplace_avg_price > 0 /\ Contains(<<"U","S","D">>, estimated_sales)
           /\ sales_match # None
           /\ digits # <<>>           \* float('') raises, swallowed by the bare except
           /\ monthly_sales > 0
        THEN PriceBonus(monthly_sales, marketplace_avg_price)
        ELSE 0

\* lines 321-326
BrandTerm(st, ma) ==
    LET store_description == Lower(StrOf(st.Description))
        brand_positioning == ma.brand_analysis.positioning
    IN  IF brand_positioning = "premium"
           /\ AnyIn(<<<<"p","r","e","m","i","u","m">>, <<"l","u","x","u","r","y">>, <<"h","i","g","h","-","e","n","d">>, <<"q","u","a","l","i","t","y">>>>, store_description)
        THEN 15
        ELSE IF brand_positioning = "value"
                /\ AnyIn(<<<<"a","f","f","o","r","d","a","b","l","e">>, <<"v","a","l","u","e">>, <<"b","u","d","g","e","t">>, <<"c","h","e","a","p">>>>, store_description)
        THEN 15
        ELSE 0

\* lines 328-331: case-sensitive, on the text as stored
ShippingTerm(st) ==
    LET ships_to == StrOf(st.ShipsTo)
    IN  IF Contains(<<"I","n","t","e","r","n","a","t","i","o","n","a","l">>, ships_to) \/ Contains(<<"U","n","i","t","e","d"," ","S","t","a","t","e","s">>, ships_to)
        THEN 10 ELSE 0

\* line 335: `products_count > 0` on a str raises TypeError ('>' is not
\* supported between str and int); nothing in the scorer catches it
ProductCountRaises(st) == st.ProductsCount.kind = "str"

\* lines 333-339, when line 335 does not raise
ProductCountTerm(st) ==
    LET products_count == st.ProductsCount
    IN  IF notna(products_count) /\ products_count.n > 0
        THEN (IF products_count.n > 100 THEN 10
              ELSE IF products_count.n > 50 THEN 5
              ELSE 0)
        ELSE 0

\* lines 341-343
OriginTerm(st) ==
    LET store_description == Lower(StrOf(st.Description))
    IN  IF AnyIn(<<<<"j","a","p","a","n">>, <<"j","a","p","a","n","e","s","e">>, <<"t","o","k","y","o">>, <<"o","s","a","k","a">>, <<"k","y","o","t","o">>>>, store_description)
        THEN 15 ELSE 0

\* the cap of line 345
ScoreCap == 100

\* the return without the cap
CapScoreMissing(sc) == sc

\* line 345: return min(100, score)
CapScore(sc) == Min(ScoreCap, sc)

\* the value _calculate_compatibility_score returns when it does not raise
_calculate_compatibility_score(st, ma) ==
    CapScore(CategoryTerm(st, ma) + PriceTerm(st, ma) + BrandTerm(st, ma)
             + ShippingTerm(st) + ProductCountTerm(st) + OriginTerm(st))

(***************************************************************************)
(* generate_supplier_recommendations and save_results.                     *)
(***************************************************************************)
\* lst[:k], k of either sign
PySlice(lst, k) ==
    IF k >= 0 THEN SubSeq(lst, 1, Min(k, Len(lst)))
    ELSE SubSeq(lst, 1, Max(Len(lst) + k, 0))

\* the threshold of line 263
MinScore == 30

\* the admission test with >= in place of >
QualifiesFromThreshold(sc) == sc >= MinScore

\* line 263: the test that admits a scored store
Qualifies(sc) == sc > MinScore

\* the slice bound of `store.get('Description', '')[:200]`
DescriptionLimit == 200

\* lines 264-274: the dict appended for the row at position index.  row is
\* the loop's index, carried so that two entries of equal content can be told
\* apart; store_name and price_range, two formatted strings nothing
\* downstream reads, are left out.
StoreInfo(index, st, sc) ==
    [row |-> index,
     store_url |-> IF notna(st.URL) THEN st.URL.s ELSE <<>>,
     categories |-> IF notna(st.Categories) THEN st.Categories.s ELSE <<>>,
     description |-> IF notna(st.Description)
                     THEN PySlice(st.Description.s, DescriptionLimit) ELSE <<>>,
     international_shipping |-> IF Contains(<<"I","n","t","e","r","n","a","t","i","o","n","a","l">>, StrOf(st.ShipsTo))
                                THEN <<"Y","e","s">> ELSE <<"U","n","k","n","o","w","n">>,
     estimated_monthly_sales |-> IF notna(st.EstimatedSales)
                                 THEN st.EstimatedSales.s ELSE <<"U","n","k","n","o","w","n">>,
     compatibility_score |-> sc,
     products_count |-> IF notna(st.ProductsCount) THEN st.ProductsCount ELSE Str(<<"U","n","k","n","o","w","n">>)]

\* lines 258-275: scored_stores after the loop over the rows from index on
RECURSIVE ScoreLoop(_, _, _, _)
ScoreLoop(ma, df, index, scored_stores) ==
    IF index > Len(df) THEN scored_stores
    ELSE LET sc == _calculate_compatibility_score(df[index], ma)
         IN  ScoreLoop(ma, df, index + 1,
                IF Qualifies(sc) THEN Append(scored_stores, StoreInfo(index, df[index], sc))
                ELSE scored_stores)

\* x put in front of the entries of equal score: a sort that is not stable
InsertDescUnstable(sorted, x) ==
    LET before == {i \in 1..Len(sorted) :
                      sorted[i].compatibility_score > x.compatibility_score}
        k == Cardinality(before)
    IN  SubSeq(sorted, 1, k) \o <<x>> \o SubSeq(sorted, k + 1, Len(sorted))

\* x put into a list that is in descending score order, behind every entry
\* whose score is not smaller
InsertDesc(sorted, x) ==
    LET before == {i \in 1..Len(sorted) :
                      sorted[i].compatibility_score >= x.compatibility_score}
        k == Cardinality(before)
    IN  SubSeq(sorted, 1, k) \o <<x>> \o SubSeq(sorted, k + 1, Len(sorted))

\* line 278: list.sort(key=score, reverse=True), a stable sort: entries of
\* equal score keep the order they had
RECURSIVE SortByScoreDesc(_)
SortByScoreDesc(lst) ==
    IF lst = <<>> THEN <<>>
    ELSE InsertDesc(SortByScoreDesc(SubSeq(lst, 1, Len(lst) - 1)), lst[Len(lst)])

\* line 281: scored_stores[:self.max_suppliers]
TopSuppliers(sorted, k) == PySlice(sorted, k)

\* the scorer raises on some row of the table (line 261 lets it propagate)
GenerateRaises(df) == \E i \in 1..Len(df) : ProductCountRaises(df[i])

\* generate_supplier_recommendations when no row makes the scorer raise;
\* an empty table returns [] at line 255
generate_supplier_recommendations(ma, df, k) ==
    IF df = <<>> THEN <<>>
    ELSE TopSuppliers(SortByScoreDesc(ScoreLoop(ma, df, 1, <<>>)), k)

\* sum(s['compatibility_score'] for s in suppliers)
RECURSIVE ScoreSum(_)
ScoreSum(lst) == IF lst = <<>> THEN 0 ELSE Head(lst).compatibility_score + ScoreSum(Tail(lst))

\* the slice bound of `marketplace_analysis['categories'][:5]`
TopCategoriesLimit == 5

\* lines 378-387: the summary dict; the mean is the fraction num / den
Summary(ma, lst) ==
    [marketplace_analysis |-> ma,
     supplier_recommendations |-> lst,
     summary_stats |->
        [total_suppliers |-> Len(lst),
         avg_compatibility_score |->
            IF lst # <<>> THEN [num |-> ScoreSum(lst), den |-> Len(lst)]
            ELSE [num |-> 0, den |-> 1],
         top_categories |-> PySlice(ma.categories, TopCategoriesLimit),
         data_source |-> "all_japan_stores_unlimited.csv"]]

\* line 394: `return csv_filename, json_filename` reads csv_filename, which
\* is assigned only inside `if suppliers:` (line 373): UnboundLocalError
SaveRaises(lst) == lst = <<>>

(***************************************************************************)
(* The fallback script.                                                    *)
(***************************************************************************)
\* lines 27-33: the six keywords found in the lower-cased page text
simple_keywords == <<<<"f","a","s","h","i","o","n">>, <<"b","e","a","u","t","y">>, <<"e","l","e","c","t","r","o","n","i","c","s">>, <<"h","o","m","e">>, <<"s","p","o","r","t","s">>, <<"j","e","w","e","l","r","y">>>>

RECURSIVE SelectIn(_, _)
SelectIn(words, hay) ==
    IF words = <<>> THEN <<>>
    ELSE (IF Contains(Head(words), hay) THEN <<Head(words)>> ELSE <<>>)
         \o SelectIn(Tail(words), hay)

SimpleCategories(text) == SelectIn(simple_keywords, Lower(text))

\* lines 36-77: the mock suppliers
MockSuppliers == <<
    [store_name |-> "Tokyo Fashion", store_url |-> "https://example-tokyo-fashion.com",
     categories |-> "Fashion, Accessories", description |-> "Premium Japanese fashion brand",
     price_range |-> "$50-$500", compatibility_score |-> 90],
    [store_name |-> "Osaka Electronics", store_url |-> "https://example-osaka-electronics.com",
     categories |-> "Electronics, Gadgets", description |-> "High-quality Japanese electronics",
     price_range |-> "$100-$2000", compatibility_score |-> 85],
    [store_name |-> "Kyoto Beauty", store_url |-> "https://example-kyoto-beauty.com",
     categories |-> "Beauty, Cosmetics", description |-> "Traditional Japanese beauty products",
     price_range |-> "$25-$300", compatibility_score |-> 88],
    [store_name |-> "Hokkaido Home", store_url |-> "https://example-hokkaido-home.com",
     categories |-> "Home, Furniture", description |-> "Minimalist Japanese home decor",
     price_range |-> "$150-$1500", compatibility_score |-> 82],
    [store_name |-> "Nara Sports", store_url |-> "https://example-nara-sports.com",
     categories |-> "Sports, Outdoor", description |-> "Japanese sports equipment",
     price_range |-> "$40-$800", compatibility_score |-> 75] >>

\* lines 88-94: the summary dict (marketplace_name, the page's <title>, and
\* the timestamp are left out)
SimpleSummary(text, lst) ==
    [detected_categories |-> SimpleCategories(text), supplier_count |-> Len(lst)]

(***************************************************************************)
(* Inputs of a run of either script.                                       *)
(***************************************************************************)
\* sequences over S of length at most n
SeqsUpTo(S, n) == UNION {[1..k -> S] : k \in 0..n}

\* rows of the stores table in a run
MaxStores == 3
\* largest max_suppliers argument in a run
MaxSuppliersArg == 2

Row(url, cats, desc, ships, sales, count) ==
    [URL |-> url, Categories |-> cats, Description |-> desc, ShipsTo |-> ships,
     EstimatedSales |-> sales, ProductsCount |-> count]

RunStores == {
    Row(Str(<<"h","t","t","p","s",":","/","/","d","e","n","k","i",".","j","p">>), Str(<<"F","a","s","h","i","o","n",","," ","E","l","e","c","t","r","o","n","i","c","s">>),
        Str(<<"A","f","f","o","r","d","a","b","l","e"," ","T","o","k","y","o"," ","e","l","e","c","t","r","o","n","i","c","s",","," ","b","u","d","g","e","t","-","f","r","i","e","n","d","l","y">>),
        Str(<<"I","n","t","e","r","n","a","t","i","o","n","a","l">>), Str(<<"U","S","D"," ","5",",","0","0","0">>), Num(150)),
    Row(Str(<<"h","t","t","p","s",":","/","/","f","u","k","u",".","j","p">>), Str(<<"F","a","s","h","i","o","n">>), NaN,
        Str(<<"J","a","p","a","n",","," ","U","n","i","t","e","d"," ","S","t","a","t","e","s">>), NaN, NaN),
    Row(Str(<<"h","t","t","p","s",":","/","/","k","i","m","o","n","o",".","j","p">>), Str(<<"F","a","s","h","i","o","n">>), Str(<<"K","y","o","t","o"," ","a","p","p","a","r","e","l">>),
        Str(<<"J","a","p","a","n">>), Str(<<"J","P","Y"," ","9","0","0">>), Num(60)),
    Row(NaN, NaN, Str(<<"e","l","e","c","t","r","o","n","i","c","s"," ","f","r","o","m"," ","O","s","a","k","a">>), NaN, NaN, Num(51)),
    Row(Str(<<"h","t","t","p","s",":","/","/","z","a","k","k","a",".","j","p">>), Str(<<"F","a","s","h","i","o","n">>), Str(<<"K","y","o","t","o"," ","a","p","p","a","r","e","l">>),
        Str(<<"J","a","p","a","n">>), NaN, Str(<<"1","0","0","+">>)) }

RunPages == {
    <<"A","f","f","o","r","d","a","b","l","e"," ","f","a","s","h","i","o","n"," ","a","n","d"," ","e","l","e","c","t","r","o","n","i","c","s"," ","o","n"," ","s","a","l","e",":"," ","$","4","0",","," ","$","6","0">>,
    <<"L","u","x","u","r","y"," ","h","o","m","e"," ","d","e","c","o","r">> }

Outcomes == {"ok", "http_error", "network_error"}

\* no function is running: the locals of analyze_marketplace and of the scorer
LocalsIdle ==
    /\ categories = None
    /\ price_analysis = None
    /\ brand_analysis = None
    /\ store = None
    /\ score = 0
    /\ returned = None

Init ==
    /\ script \in {"enhanced", "fallback"}
    /\ net \in Outcomes
    /\ page_text \in RunPages
    /\ \/ /\ script = "enhanced"
          /\ max_suppliers \in -1..MaxSuppliersArg
          /\ stores_df \in {None} \cup {Some(t) : t \in SeqsUpTo(RunStores, MaxStores)}
          /\ pc = "load"
       \/ /\ script = "fallback"
          /\ max_suppliers = 0
          /\ stores_df = None
          /\ pc = "simple"
    /\ requests_made = 0
    /\ marketplace_analysis = None
    /\ suppliers = None
    /\ csv_file = None
    /\ json_file = None
    /\ exit_status = None
    /\ LocalsIdle

inputs == <<script, max_suppliers, stores_df, net, page_text>>
locals == <<categories, price_analysis, brand_analysis, store, score, returned>>

(***************************************************************************)
(* main() of the enhanced script.                                          *)
(***************************************************************************)
\* lines 412-415
LoadDatabase ==
    /\ pc = "load"
    /\ IF stores_df = None
       THEN pc' = "exited" /\ exit_status' = Some(1)
       ELSE pc' = "analyze" /\ UNCHANGED exit_status
    /\ UNCHANGED <<inputs, locals, requests_made, marketplace_analysis, suppliers,
                   csv_file, json_file>>

\* lines 418-421 with analyze_marketplace (42-74): one GET; raise_for_status
\* and every other exception end in `return None`, and main exits with 1
AnalyzeMarketplace ==
    /\ pc = "analyze"
    /\ requests_made' = requests_made + 1
    /\ IF net = "ok"
       THEN /\ \E a \in AnalysisResults(page_text) : marketplace_analysis' = Some(a)
            /\ pc' = "generate"
            /\ UNCHANGED exit_status
       ELSE /\ marketplace_analysis' = None
            /\ pc' = "exited"
            /\ exit_status' = Some(1)
    /\ UNCHANGED <<inputs, locals, suppliers, csv_file, json_file>>

\* line 424; an exception of the scorer is caught nowhere and ends the
\* process with a traceback and status 1
GenerateRecommendations ==
    /\ pc = "generate"
    /\ IF GenerateRaises(Get(stores_df))
       THEN pc' = "exited" /\ exit_status' = Some(1) /\ UNCHANGED suppliers
       ELSE /\ suppliers' = Some(generate_supplier_recommendations(
                                Get(marketplace_analysis), Get(stores_df), max_suppliers))
            /\ pc' = "save"
            /\ UNCHANGED exit_status
    /\ UNCHANGED <<inputs, locals, requests_made, marketplace_analysis, csv_file, json_file>>

\* line 427 with save_results (366-394)
SaveResults ==
    /\ pc = "save"
    /\ csv_file' = IF Get(suppliers) # <<>> THEN Some(Get(suppliers)) ELSE None
    /\ json_file' = Some(Summary(Get(marketplace_analysis), Get(suppliers)))
    /\ IF SaveRaises(Get(suppliers))
       THEN pc' = "exited" /\ exit_status' = Some(1)
       ELSE pc' = "report" /\ UNCHANGED exit_status
    /\ UNCHANGED <<inputs, locals, requests_made, marketplace_analysis, suppliers>>

\* lines 429-435: the closing prints, then main returns
Report ==
    /\ pc = "report"
    /\ pc' = "exited"
    /\ exit_status' = Some(0)
    /\ UNCHANGED <<inputs, locals, requests_made, marketplace_analysis, suppliers,
                   csv_file, json_file>>

(***************************************************************************)
(* The fallback script.                                                    *)
(***************************************************************************)
\* the fallback with the status checked as the enhanced script does it: an
\* error status raises before anything is written
SimpleAnalyzeStatusChecked ==
    /\ pc = "simple"
    /\ requests_made' = requests_made + 1
    /\ IF net # "ok"
       THEN UNCHANGED <<csv_file, json_file>>
       ELSE /\ csv_file' = Some(MockSuppliers)
            /\ json_file' = Some(SimpleSummary(page_text, MockSuppliers))
    /\ pc' = "simple_returned"
    /\ UNCHANGED <<inputs, locals, marketplace_analysis, suppliers, exit_status>>

\* analyze_marketplace(url), lines 14-105: one GET with no raise_for_status,
\* so a response of any status is parsed; an exception of requests.get lands
\* in the except clause, before anything is written
SimpleAnalyze ==
    /\ pc = "simple"
    /\ requests_made' = requests_made + 1
    /\ IF net = "network_error"
       THEN UNCHANGED <<csv_file, json_file>>
       ELSE /\ csv_file' = Some(MockSuppliers)
            /\ json_file' = Some(SimpleSummary(page_text, MockSuppliers))
    /\ pc' = "simple_returned"
    /\ UNCHANGED <<inputs, locals, marketplace_analysis, suppliers, exit_status>>

\* lines 107-109: the returned True / False is dropped, the script ends
SimpleExit ==
    /\ pc = "simple_returned"
    /\ pc' = "exited"
    /\ exit_status' = Some(0)
    /\ UNCHANGED <<inputs, locals, requests_made, marketplace_analysis, suppliers,
                   csv_file, json_file>>

Next ==
    \/ LoadDatabase
    \/ AnalyzeMarketplace
    \/ GenerateRecommendations
    \/ SaveResults
    \/ Report
    \/ SimpleAnalyze
    \/ SimpleExit

Spec == Init /\ [][Next]_vars

(***************************************************************************)
(* analyze_marketplace on a fetched page, key by key (lines 53-63).        *)
(***************************************************************************)
\* fragments a page is put together from
MaxFragments == 3

PageFragments == {
    <<"P","r","e","m","i","u","m"," ","F","a","s","h","i","o","n"," ","B","e","a","u","t","y"," ","T","e","c","h"," ","H","o","m","e"," ","S","p","o","r","t","s"," ">>,
    <<"r","i","n","g"," ","b","o","o","k","s"," ","p","l","a","y"," ","c","a","r","p","e","t"," ","h","e","a","l","t","h"," ">>,
    <<"$","5","0","0","0","0",".","0","1"," ","€","0",".","9","9"," ","£",",","."," ">>,
    <<"$","4","9","9","9","9",".","9","9"," ">>,
    <<"₹","1"," ">>,
    <<"¥","5","0","0","0","0"," ">>,
    <<"l","u","x","u","r","y"," ","l","u","x","u","r","y"," ","s","a","l","e"," ">>,
    <<"c","h","e","a","p"," ","d","i","s","c","o","u","n","t"," ">> }

ExtractPages == {Concat(fs) : fs \in SeqsUpTo(PageFragments, MaxFragments)}

InitExtract ==
    /\ script = "enhanced"
    /\ max_suppliers = 0
    /\ stores_df = Some(<<>>)
    /\ net = "ok"
    /\ page_text \in ExtractPages
    /\ pc = "extract_categories"
    /\ requests_made = 1
    /\ marketplace_analysis = None
    /\ suppliers = None
    /\ csv_file = None
    /\ json_file = None
    /\ exit_status = None
    /\ LocalsIdle

run == <<requests_made, marketplace_analysis, suppliers, csv_file, json_file, exit_status>>

\* line 57
StepCategories ==
    /\ pc = "extract_categories"
    /\ categories' = Some(_extract_categories(page_text))
    /\ pc' = "extract_prices"
    /\ UNCHANGED <<inputs, run, price_analysis, brand_analysis, store, score, returned>>

\* line 58
StepPrices ==
    /\ pc = "extract_prices"
    /\ \E pa \in _analyze_prices(page_text) : price_analysis' = Some(pa)
    /\ pc' = "extract_brands"
    /\ UNCHANGED <<inputs, run, categories, brand_analysis, store, score, returned>>

\* line 59
StepBrands ==
    /\ pc = "extract_brands"
    /\ brand_analysis' = Some(_analyze_brands(page_text))
    /\ pc' = "extract_return"
    /\ UNCHANGED <<inputs, run, categories, price_analysis, store, score, returned>>

\* line 70: return analysis_result
StepReturn ==
    /\ pc = "extract_return"
    /\ marketplace_analysis' = Some([categories |-> Get(categories),
                                     price_analysis |-> Get(price_analysis),
                                     brand_analysis |-> Get(brand_analysis)])
    /\ pc' = "extract_done"
    /\ UNCHANGED <<inputs, locals, requests_made, suppliers, csv_file, json_file, exit_status>>

NextExtract == StepCategories \/ StepPrices \/ StepBrands \/ StepReturn

SpecExtract == InitExtract /\ [][NextExtract]_vars

(***************************************************************************)
(* _calculate_compatibility_score on one row, statement by statement.      *)
(***************************************************************************)
ScorePages == {
    <<"A","f","f","o","r","d","a","b","l","e"," ","f","a","s","h","i","o","n"," ","a","n","d"," ","e","l","e","c","t","r","o","n","i","c","s"," ","o","n"," ","s","a","l","e",":"," ","$","4","0",","," ","$","6","0">>,
    <<"P","r","e","m","i","u","m"," ","d","e","s","i","g","n","e","r"," ","f","a","s","h","i","o","n",","," ","e","l","e","c","t","r","o","n","i","c","s"," ","a","n","d"," ","h","o","m","e"," ","d","e","c","o","r"," ","f","r","o","m"," ","$","5","0">>,
    <<"L","u","x","u","r","y"," ","h","o","m","e"," ","d","e","c","o","r">>,
    <<"F","a","s","h","i","o","n"," ","$","1">> }

ScoreStores ==
    {Row(Str(<<"h","t","t","p","s",":","/","/","m","i","s","e",".","j","p">>), cats, desc, ships, sales, count) :
        cats \in {NaN, Str(<<"F","a","s","h","i","o","n",","," ","E","l","e","c","t","r","o","n","i","c","s",","," ","H","o","m","e">>)},
        desc \in {NaN, Str(<<"A","f","f","o","r","d","a","b","l","e"," ","T","o","k","y","o"," ","e","l","e","c","t","r","o","n","i","c","s",","," ","b","u","d","g","e","t","-","f","r","i","e","n","d","l","y">>),
                  Str(<<"P","r","e","m","i","u","m"," ","q","u","a","l","i","t","y"," ","g","o","o","d","s"," ","f","r","o","m"," ","J","a","p","a","n">>)},
        ships \in {NaN, Str(<<"I","n","t","e","r","n","a","t","i","o","n","a","l">>), Str(<<"J","a","p","a","n",","," ","U","n","i","t","e","d"," ","S","t","a","t","e","s">>), Str(<<"i","n","t","e","r","n","a","t","i","o","n","a","l">>)},
        sales \in {NaN, Str(<<"U","S","D"," ","5",",","0","0","0">>), Str(<<"U","S","D"," ","7",",","5","0","0">>), Str(<<"U","S","D"," ","1","0",",","0","0","0">>),
                   Str(<<"J","P","Y"," ","5",",","0","0","0">>), Str(<<"U","S","D"," ",","," ","5","0","0","0">>), Str(<<"0"," ","U","S","D">>)},
        count \in {NaN, Num(0), Num(50), Num(51), Num(100), Num(101), Str(<<"1","0","0","+">>)}}

InitScore ==
    /\ script = "enhanced"
    /\ max_suppliers = 0
    /\ net = "ok"
    /\ page_text \in ScorePages
    /\ marketplace_analysis \in {Some(a) : a \in AnalysisResults(page_text)}
    /\ \E st \in ScoreStores : stores_df = Some(<<st>>) /\ store = Some(st)
    /\ pc = "score_category"
    /\ requests_made = 1
    /\ suppliers = None
    /\ csv_file = None
    /\ json_file = None
    /\ exit_status = None
    /\ categories = None
    /\ price_analysis = None
    /\ brand_analysis = None
    /\ score = 0
    /\ returned = None

rest == <<inputs, run, categories, price_analysis, brand_analysis, store>>

\* lines 290-298
ScoreCategory ==
    /\ pc = "score_category"
    /\ score' = score + CategoryTerm(Get(store), Get(marketplace_analysis))
    /\ pc' = "score_price"
    /\ UNCHANGED <<rest, returned>>

\* lines 300-319
ScorePrice ==
    /\ pc = "score_price"
    /\ score' = score + PriceTerm(Get(store), Get(marketplace_analysis))
    /\ pc' = "score_brand"
    /\ UNCHANGED <<rest, returned>>

\* lines 321-326
ScoreBrand ==
    /\ pc = "score_brand"
    /\ score' = score + BrandTerm(Get(store), Get(marketplace_analysis))
    /\ pc' = "score_shipping"
    /\ UNCHANGED <<rest, returned>>

\* lines 328-331
ScoreShipping ==
    /\ pc = "score_shipping"
    /\ score' = score + ShippingTerm(Get(store))
    /\ pc' = "score_count"
    /\ UNCHANGED <<rest, returned>>

\* lines 333-339
ScoreProductCount ==
    /\ pc = "score_count"
    /\ IF ProductCountRaises(Get(store))
       THEN pc' = "score_raised" /\ UNCHANGED score
       ELSE score' = score + ProductCountTerm(Get(store)) /\ pc' = "score_origin"
    /\ UNCHANGED <<rest, returned>>

\* lines 341-343
ScoreOrigin ==
    /\ pc = "score_origin"
    /\ score' = score + OriginTerm(Get(store))
    /\ pc' = "score_return"
    /\ UNCHANGED <<rest, returned>>

\* line 345
ScoreReturn ==
    /\ pc = "score_return"
    /\ returned' = Some(CapScore(score))
    /\ pc' = "score_done"
    /\ UNCHANGED <<rest, score>>

NextScore ==
    \/ ScoreCategory
    \/ ScorePrice
    \/ ScoreBrand
    \/ ScoreShipping
    \/ ScoreProductCount
    \/ ScoreOrigin
    \/ ScoreReturn

SpecScore == InitScore /\ [][NextScore]_vars

(***************************************************************************)
(* Properties.                                                             *)
(***************************************************************************)

\* C1 (SpecScore): whatever the row and the marketplace analysis, the value
\* _calculate_compatibility_score returns is an integer from 0 to 100.
C1_ScoreInRange ==
    returned # None => Get(returned) \in 0..100

\* a row whose terms add up to more than 100 has been scored
C1_Witness ==
    /\ pc = "score_done"
    /\ score > 100
    /\ Get(returned) = 100

\* the table, the analysis and the list of a finished generate call
RowScore(i) == _calculate_compatibility_score(Get(stores_df)[i], Get(marketplace_analysis))
QualifyingRows == {i \in 1..Len(Get(stores_df)) : RowScore(i) > 30}
OutputRows == {Get(suppliers)[j].row : j \in 1..Len(Get(suppliers))}

\* C2 (Spec): with max_suppliers >= 0 the returned list holds only rows whose
\* computed score is strictly above 30, has at most max_suppliers entries,
\* and holds every row scoring above 30 when fewer than max_suppliers qualify.
C2_ThresholdAndCap ==
    (suppliers # None /\ max_suppliers >= 0) =>
        LET out == Get(suppliers)
        IN  /\ \A j \in 1..Len(out) :
                /\ out[j].row \in 1..Len(Get(stores_df))
                /\ out[j].compatibility_score = RowScore(out[j].row)
                /\ out[j].compatibility_score > 30
            /\ Len(out) <= max_suppliers
            /\ Cardinality(QualifyingRows) < max_suppliers => QualifyingRows \subseteq OutputRows

\* a table with a row scoring exactly 30 and fewer qualifying rows than
\* max_suppliers has been ranked
C2_Witness ==
    /\ suppliers # None
    /\ max_suppliers >= 0
    /\ \E i \in 1..Len(Get(stores_df)) : RowScore(i) = 30
    /\ Get(suppliers) # <<>>
    /\ Cardinality(QualifyingRows) < max_suppliers

\* C3 (Spec): the returned list is non-increasing in score, entries of equal
\* score stand in the order of their rows in the table, and every qualifying
\* row left out by the cut ranks behind every entry kept.
C3_StableDescending ==
    suppliers # None =>
        LET out == Get(suppliers)
        IN  /\ \A i, j \in 1..Len(out) : i < j =>
                /\ out[i].compatibility_score >= out[j].compatibility_score
                /\ out[i].compatibility_score = out[j].compatibility_score
                      => out[i].row < out[j].row
            /\ \A r \in QualifyingRows \ OutputRows : \A j \in 1..Len(out) :
                \/ RowScore(r) < out[j].compatibility_score
                \/ RowScore(r) = out[j].compatibility_score /\ r > out[j].row

\* two entries of equal score were kept and a qualifying row was cut
C3_Witness ==
    /\ suppliers # None
    /\ \E i, j \in 1..Len(Get(suppliers)) :
          /\ i < j
          /\ Get(suppliers)[i].compatibility_score = Get(suppliers)[j].compatibility_score
    /\ QualifyingRows \ OutputRows # {}

\* C4 (Spec): once the fetch has failed (network failure or HTTP error
\* status), in either script, exactly one request was made, nothing is
\* scored, neither file is written and the process does not end with status 0.
C4_FetchFailureAborts ==
    (net # "ok" /\ requests_made > 0) =>
        /\ requests_made = 1
        /\ suppliers = None
        /\ csv_file = None
        /\ json_file = None
        /\ exit_status # Some(0)

\* C5 (Spec): with an empty ranked list, save_results writes no CSV, writes
\* the summary with supplier count 0 and mean score 0, and returns, so that
\* the run ends with status 0.
C5_EmptyListRunSucceeds ==
    (suppliers = Some(<<>>) /\ pc = "exited") =>
        /\ csv_file = None
        /\ json_file # None
        /\ Get(json_file).summary_stats.total_suppliers = 0
        /\ Get(json_file).summary_stats.avg_compatibility_score.num = 0
        /\ exit_status = Some(0)

\* the five sample suppliers, as the claim lists them
C6_FixedSample == <<
    [store_name |-> "Tokyo Fashion", store_url |-> "https://example-tokyo-fashion.com",
     categories |-> "Fashion, Accessories", description |-> "Premium Japanese fashion brand",
     price_range |-> "$50-$500", compatibility_score |-> 90],
    [store_name |-> "Osaka Electronics", store_url |-> "https://example-osaka-electronics.com",
     categories |-> "Electronics, Gadgets", description |-> "High-quality Japanese electronics",
     price_range |-> "$100-$2000", compatibility_score |-> 85],
    [store_name |-> "Kyoto Beauty", store_url |-> "https://example-kyoto-beauty.com",
     categories |-> "Beauty, Cosmetics", description |-> "Traditional Japanese beauty products",
     price_range |-> "$25-$300", compatibility_score |-> 88],
    [store_name |-> "Hokkaido Home", store_url |-> "https://example-hokkaido-home.com",
     categories |-> "Home, Furniture", description |-> "Minimalist Japanese home decor",
     price_range |-> "$150-$1500", compatibility_score |-> 82],
    [store_name |-> "Nara Sports", store_url |-> "https://example-nara-sports.com",
     categories |-> "Sports, Outdoor", description |-> "Japanese sports equipment",
     price_range |-> "$40-$800", compatibility_score |-> 75] >>

\* C6 as stated (Spec): the fallback run emits the five sample suppliers to
\* the CSV whatever the page content and whatever the fetch outcome.
C6_FallbackAlwaysEmits ==
    (script = "fallback" /\ pc \in {"simple_returned", "exited"}) =>
        csv_file = Some(C6_FixedSample)

\* C6 amended (Spec): the fallback run emits the five sample suppliers to the
\* CSV whenever the request returns a response, whatever its status and the
\* page content; when the request itself fails, no CSV is written.
C6_FallbackEmitsOnResponse ==
    (script = "fallback" /\ pc \in {"simple_returned", "exited"}) =>
        IF net = "network_error" THEN csv_file = None
        ELSE csv_file = Some(C6_FixedSample)

\* a fallback run has ended on an error-status response with the sample written
C6_Witness ==
    /\ script = "fallback"
    /\ pc = "exited"
    /\ net = "http_error"
    /\ csv_file = Some(C6_FixedSample)

\* the price term as the claim words it, for the row being scored
C7_Expected ==
    LET average == Get(marketplace_analysis).price_analysis.average_price
        text == StrOf(Get(store).EstimatedSales)
        parsed == IF SalesMatch(text) = None THEN 0
                  ELSE DigitsToInt(Keep(Get(SalesMatch(text)), Digits))
        estimate == parsed
    IN  IF average = 0 THEN 0
        ELSE IF ~Contains(<<"U","S","D">>, text) \/ parsed <= 0 THEN 0
        ELSE IF 2 * Abs(estimate - average) < average THEN 25
        ELSE IF Abs(estimate - average) < average THEN 15
        ELSE 0

\* C7 (SpecScore): the price statement adds 0 when the marketplace average is
\* 0; otherwise it adds something only if the sales text holds "USD" and a
\* positive number parses, and then +25 when |estimate - average| is below
\* half the average, +15 when it is below the average, else 0 (both strict).
C7_PriceTerm ==
    [][pc = "score_price" => score' - score = C7_Expected]_vars

\* the price statement has run on an estimate exactly half the average away
C7_Witness ==
    /\ pc = "score_brand"
    /\ Get(marketplace_analysis).price_analysis.average_price = 5000
    /\ Get(store).EstimatedSales = Str(<<"U","S","D"," ","7",",","5","0","0">>)
    /\ score = CategoryTerm(Get(store), Get(marketplace_analysis)) + 15

\* every value parsed from a price match of the page, in or out of range
RECURSIVE C8_ParsedOf(_)
C8_ParsedOf(matches) ==
    IF matches = <<>> THEN <<>>
    ELSE LET numeric_value == Keep(Head(matches), Digits \cup {"."})
         IN  (IF Keep(numeric_value, Digits) # <<>> THEN <<FloatCents(numeric_value)>> ELSE <<>>)
             \o C8_ParsedOf(Tail(matches))
C8_Parsed(text) ==
    Concat([p \in 1..Len(price_patterns) |-> C8_ParsedOf(FindAll(price_patterns[p], text, 1))])

\* C8 (SpecExtract): a parsed value counts iff 1 <= value <= 50000;
\* price_count is the number of values that count, min <= average <= max
\* over them, and with none the result is 0, 0, 0, 0 and USD.
C8_PriceStats ==
    price_analysis # None =>
        LET pa == Get(price_analysis)
            parsed == C8_Parsed(page_text)
            counted == {i \in 1..Len(parsed) : 100 <= parsed[i] /\ parsed[i] <= 5000000}
        IN  /\ pa.price_count = Cardinality(counted)
            /\ IF counted # {}
               THEN /\ pa.min_price = MinSeq([i \in 1..Len(parsed) |->
                                        IF i \in counted THEN parsed[i] ELSE 5000000])
                    /\ pa.max_price = MaxSeq([i \in 1..Len(parsed) |->
                                        IF i \in counted THEN parsed[i] ELSE 100])
                    /\ pa.min_price <= pa.average_price
                    /\ pa.average_price <= pa.max_price
               ELSE pa = [average_price |-> 0, min_price |-> 0, max_price |-> 0,
                          price_count |-> 0, currency_detected |-> "USD"]
            /\ page_text = <<"$","5","0","0","0","0",".","0","1"," ","€","0",".","9","9"," ","£",",","."," ">> => pa.price_count = 0
            /\ page_text = <<"$","4","9","9","9","9",".","9","9"," ">> => pa.price_count = 1
            /\ page_text = <<"₹","1"," ">> => pa.price_count = 1
            /\ page_text = <<"¥","5","0","0","0","0"," ">> => pa.price_count = 1

\* a page with 1, 50000 and values out of range has been analysed
C8_Witness ==
    /\ price_analysis # None
    /\ \E i \in 1..Len(C8_Parsed(page_text)) : C8_Parsed(page_text)[i] = 5000001
    /\ Get(price_analysis).min_price = 100
    /\ Get(price_analysis).max_price = 5000000
    /\ Get(price_analysis).price_count = 2

\* the labels in the order the claim lists them
C9_Order == <<<<"f","a","s","h","i","o","n">>, <<"b","e","a","u","t","y">>, <<"e","l","e","c","t","r","o","n","i","c","s">>, <<"h","o","m","e">>, <<"s","p","o","r","t","s">>, <<"j","e","w","e","l","r","y">>,
              <<"b","o","o","k","s">>, <<"t","o","y","s">>, <<"a","u","t","o","m","o","t","i","v","e">>, <<"h","e","a","l","t","h">>, <<"p","e","t","s">>>>

\* positions in C9_Order of the labels one of whose keywords is in the
\* lower-cased page text
C9_Matching ==
    LET lc == Lower(page_text)
    IN  {i \in 1..11 : \E e \in Range(category_keywords) :
            /\ e.label = C9_Order[i]
            /\ \E k \in Range(e.keywords) : Contains(k, lc)}

\* C9 (SpecExtract): the result lists exactly the matching labels in the
\* fixed order fashion .. pets, cut to the first 10 (pets is dropped when all
\* 11 match); being determined by the page text, a second run on the same
\* text gives the same list.
C9_CategoriesInOrder ==
    categories # None =>
        LET result == Get(categories)
            matching == C9_Matching
            rank == [i \in 1..11 |-> Cardinality({m \in matching : m < i}) + 1]
            kept == {i \in matching : rank[i] <= 10}
        IN  /\ Len(result) = Cardinality(kept)
            /\ \A i \in kept : result[rank[i]] = C9_Order[i]
            /\ Cardinality(matching) = 11 => \A k \in 1..Len(result) : result[k] # <<"p","e","t","s">>

\* a page on which all 11 labels match has been analysed
C9_Witness ==
    /\ categories # None
    /\ Cardinality(C9_Matching) = 11
    /\ Len(Get(categories)) = 10

\* the product-count term as the claim words it, for the row being scored
C10_Expected ==
    LET count == Get(store).ProductsCount
    IN  IF count.kind # "num" THEN 0
        ELSE IF count.n > 100 THEN 10
        ELSE IF count.n > 50 THEN 5
        ELSE 0

\* C10 (SpecScore): the product-count statement adds 10 above 100, 5 above
\* 50 up to 100, else 0, and a row whose count is missing or is not a number
\* is scored all the same (the term is 0): the scorer does not fail on it.
C10_CountTermNeverFails ==
    /\ pc # "score_raised"
    /\ pc = "score_origin" =>
          score = CategoryTerm(Get(store), Get(marketplace_analysis))
                  + PriceTerm(Get(store), Get(marketplace_analysis))
                  + BrandTerm(Get(store), Get(marketplace_analysis))
                  + ShippingTerm(Get(store)) + C10_Expected

\* the category, positioning, shipping and origin terms as the claim words
\* them, for the row being scored
C11_Category ==
    LET cats == Lower(StrOf(Get(store).Categories))
        desc == Lower(StrOf(Get(store).Description))
        labels == Get(marketplace_analysis).categories
    IN  20 * Cardinality({i \in 1..Len(labels) :
                Contains(labels[i], cats) \/ Contains(labels[i], desc)})
C11_Positioning ==
    LET desc == Lower(StrOf(Get(store).Description))
        label == Get(marketplace_analysis).brand_analysis.positioning
        premium == \E w \in {<<"p","r","e","m","i","u","m">>, <<"l","u","x","u","r","y">>, <<"h","i","g","h","-","e","n","d">>, <<"q","u","a","l","i","t","y">>} : Contains(w, desc)
        value == \E w \in {<<"a","f","f","o","r","d","a","b","l","e">>, <<"v","a","l","u","e">>, <<"b","u","d","g","e","t">>, <<"c","h","e","a","p">>} : Contains(w, desc)
    IN  IF (label = "premium" /\ premium) \/ (label = "value" /\ value) THEN 15 ELSE 0
C11_Shipping ==
    LET ships == StrOf(Get(store).ShipsTo)
    IN  IF Contains(<<"I","n","t","e","r","n","a","t","i","o","n","a","l">>, ships) \/ Contains(<<"U","n","i","t","e","d"," ","S","t","a","t","e","s">>, ships) THEN 10 ELSE 0
C11_Origin ==
    LET desc == Lower(StrOf(Get(store).Description))
    IN  IF \E w \in {<<"j","a","p","a","n">>, <<"j","a","p","a","n","e","s","e">>, <<"t","o","k","y","o">>, <<"o","s","a","k","a">>, <<"k","y","o","t","o">>} : Contains(w, desc)
        THEN 15 ELSE 0

\* C11 (SpecScore): each statement adds its own term, whatever the others
\* added (the running score is the sum of the terms passed so far, +20 per
\* matching category without a cap), the returned score is min(100, sum of
\* the six terms), and "Affordable Tokyo electronics, budget-friendly"
\* against a "value" marketplace with category electronics collects
\* 20 + 15 + 15 = 50 from category, positioning and origin.
C11_SumOfIndependentTerms ==
    LET t1 == C11_Category
        t2 == t1 + C7_Expected
        t3 == t2 + C11_Positioning
        t4 == t3 + C11_Shipping
        t5 == t4 + C10_Expected
        t6 == t5 + C11_Origin
    IN  /\ pc = "score_price" => score = t1
        /\ pc = "score_brand" => score = t2
        /\ pc = "score_shipping" => score = t3
        /\ pc = "score_count" => score = t4
        /\ pc = "score_origin" => score = t5
        /\ pc \in {"score_return", "score_done"} => score = t6
        /\ returned # None => Get(returned) = (IF t6 < 100 THEN t6 ELSE 100)
        /\ (/\ pc = "score_done"
            /\ Get(store).Description = Str(<<"A","f","f","o","r","d","a","b","l","e"," ","T","o","k","y","o"," ","e","l","e","c","t","r","o","n","i","c","s",","," ","b","u","d","g","e","t","-","f","r","i","e","n","d","l","y">>)
            /\ Get(store).Categories = NaN
            /\ Get(marketplace_analysis).brand_analysis.positioning = "value"
            /\ Get(marketplace_analysis).categories = <<<<"f","a","s","h","i","o","n">>, <<"e","l","e","c","t","r","o","n","i","c","s">>>>)
           => C11_Category + C11_Positioning + C11_Origin = 50

\* the scenario row has been scored with no other term: 50 is returned
C11_Witness ==
    /\ pc = "score_done"
    /\ Get(store).Description = Str(<<"A","f","f","o","r","d","a","b","l","e"," ","T","o","k","y","o"," ","e","l","e","c","t","r","o","n","i","c","s",","," ","b","u","d","g","e","t","-","f","r","i","e","n","d","l","y">>)
    /\ Get(store).Categories = NaN
    /\ Get(store).ShipsTo = NaN
    /\ Get(store).EstimatedSales = NaN
    /\ Get(store).ProductsCount = NaN
    /\ Get(marketplace_analysis).brand_analysis.positioning = "value"
    /\ Get(marketplace_analysis).categories = <<<<"f","a","s","h","i","o","n">>, <<"e","l","e","c","t","r","o","n","i","c","s">>>>
    /\ Get(returned) = 50

\* the two word lists of the claim
C12_LuxuryWords == {<<"l","u","x","u","r","y">>, <<"p","r","e","m","i","u","m">>, <<"e","x","c","l","u","s","i","v","e">>, <<"d","e","s","i","g","n","e","r">>, <<"h","i","g","h","-","e","n","d">>}
C12_ValueWords == {<<"a","f","f","o","r","d","a","b","l","e">>, <<"c","h","e","a","p">>, <<"d","i","s","c","o","u","n","t">>, <<"s","a","l","e">>, <<"b","u","d","g","e","t">>}

\* number of places of the lower-cased page text where a word of the set starts
C12_Occurrences(words) ==
    LET lc == Lower(page_text)
    IN  Cardinality({<<w, p>> \in words \X (1..Len(lc)) :
            /\ p + Len(w) - 1 <= Len(lc)
            /\ SubSeq(lc, p, p + Len(w) - 1) = w})

\* number of words of the set found in the lower-cased page text
C12_WordsPresent(words) ==
    LET lc == Lower(page_text)
    IN  Cardinality({w \in words : Contains(w, lc)})

\* the label the claim gives to a pair of counts
C12_Label(luxury, value) ==
    IF luxury > value THEN "premium" ELSE IF value > luxury THEN "value" ELSE "mid-market"

\* C12 as stated (SpecExtract): luxury_score and value_score count every
\* case-insensitive occurrence of the 5 luxury and the 5 value words (a word
\* appearing several times counts several times); the label is premium,
\* value or mid-market as the luxury count is above, below or equal to the
\* value count.
C12_CountsOccurrences ==
    brand_analysis # None =>
        LET ba == Get(brand_analysis)
        IN  /\ ba.luxury_score = C12_Occurrences(C12_LuxuryWords)
            /\ ba.value_score = C12_Occurrences(C12_ValueWords)
            /\ ba.positioning = C12_Label(ba.luxury_score, ba.value_score)

\* C12 amended (SpecExtract): luxury_score and value_score are the numbers
\* of the 5 luxury and the 5 value words that occur at least once in the
\* lower-cased page text (a word appearing several times counts once); the
\* label is premium, value or mid-market as luxury_score is above, below or
\* equal to value_score.
C12_CountsWordsPresent ==
    brand_analysis # None =>
        LET ba == Get(brand_analysis)
        IN  /\ ba.luxury_score = C12_WordsPresent(C12_LuxuryWords)
            /\ ba.value_score = C12_WordsPresent(C12_ValueWords)
            /\ ba.positioning = C12_Label(ba.luxury_score, ba.value_score)

\* a page where "luxury" stands twice and "sale" once has been analysed:
\* one word a side, the label is mid-market
C12_Witness ==
    /\ brand_analysis # None
    /\ C12_Occurrences(C12_LuxuryWords) = 2
    /\ C12_Occurrences(C12_ValueWords) = 1
    /\ Get(brand_analysis).luxury_score = 1
    /\ Get(brand_analysis).value_score = 1
    /\ Get(brand_analysis).positioning = "mid-market"

====
